---- MODULE Spec2Model ----
(***************************************************************************)
(* A state-machine model of src/app.py, the Streamlit IPL dashboard.       *)
(*                                                                         *)
(* One run of the script is a walk of pc through the script's sections:    *)
(* load (setup_database), header and tab1, tab2 (batsman), tab3 (team),    *)
(* tab4 (bowler), the season container and the head-to-head container.     *)
(* A run ends "done" (fell off the end), "stopped" (st.stop()) or          *)
(* "crashed" (an uncaught exception).  A user interaction reruns the       *)
(* script; the connection made by setup_database is kept by                *)
(* st.cache_resource.                                                      *)
(*                                                                         *)
(* The two CSV files are the input: their status and contents are drawn    *)
(* in Init and never change.  SQL is modelled with its three-valued        *)
(* logic; NULL is the marker value NULL.  Names are drawn from small       *)
(* alphabets of quote-free strings, so the f-string interpolation          *)
(* '{name}' is the SQL literal of the name.  run_query is memoised by      *)
(* st.cache_data; the tables never change, so a cached answer is the       *)
(* answer of the query, and queries records the calls of run_query.        *)
(***************************************************************************)
EXTENDS Integers, Sequences, FiniteSets, TLC

VARIABLES
    fileStatus,   \* what reading the CSV files / filling the database does
    matches,      \* rows of matches.csv: [team1, team2, winner]
    deliveries,   \* rows of deliveries.csv: [bowler, batter, batsman_runs, dismissal_kind]
    cols,         \* labels of the deliveries columns among batter, batsman, bowler
    conn,         \* "none", or "open" once setup_database has returned
    pc,           \* position of the script run
    queries,      \* calls of run_query in this run, in order
    rendered,     \* views whose widgets this run has rendered
    messages,     \* st.error / st.warning calls of this run, in order
    batsman,      \* tab2 display
    team,         \* tab3 display
    bowler,       \* tab4 display
    season,       \* season container display
    h2h           \* head-to-head container display

vars == <<fileStatus, matches, deliveries, cols, conn, pc, queries, rendered,
          messages, batsman, team, bowler, season, h2h>>

-----------------------------------------------------------------------------
(* Bounds of the model.                                                    *)

MaxMatches == 2
MaxDeliveries == 3
MaxBalls == 37

-----------------------------------------------------------------------------
(* Alphabets, each in the order SQLite's ORDER BY gives (binary collation). *)

NULL == "<NULL>"
NoResult == "No Result"

TeamNames == <<"A", "B", "C">>
BowlerNames == <<"X", "Y">>
BatterNames == <<"P", "Q">>
DismissalKinds == <<"bowled", "caught", "obstructing the field", "retired hurt", "run out">>
RunValues == {0, 1, 4, 6}

Range(s) == {s[i] : i \in 1..Len(s)}

Idx(s, x) == IF x \in Range(s) THEN CHOOSE i \in 1..Len(s) : s[i] = x ELSE 0

-----------------------------------------------------------------------------
(* SQL three-valued logic: "T", "F", "U" (unknown).  WHERE keeps a row     *)
(* only when its predicate is "T".                                         *)

SqlEq(x, y) == IF x = NULL \/ y = NULL THEN "U" ELSE IF x = y THEN "T" ELSE "F"

SqlNot(p) == IF p = "T" THEN "F" ELSE IF p = "F" THEN "T" ELSE "U"

SqlAnd(p, q) == IF p = "F" \/ q = "F" THEN "F"
                ELSE IF p = "U" \/ q = "U" THEN "U" ELSE "T"

SqlOr(p, q) == IF p = "T" \/ q = "T" THEN "T"
               ELSE IF p = "U" \/ q = "U" THEN "U" ELSE "F"

SqlIsNull(x) == IF x = NULL THEN "T" ELSE "F"

\* x IN (literals), the literals being non-null
SqlIn(x, S) == IF x = NULL THEN "U" ELSE IF x \in S THEN "T" ELSE "F"

\* WHERE keeps the rows whose predicate is true, not those where it is unknown
Kept(p) == p = "T"

\* SELECT DISTINCT col ... ORDER BY col, over an alphabet given in order
DistinctOrdered(alphabet, present) ==
    SelectSeq(alphabet, LAMBDA x : x \in present)

-----------------------------------------------------------------------------
(* The queries of tab3 (team performance) and the derived losses.          *)

\* SELECT DISTINCT team1 FROM matches ORDER BY team1
TeamsList(tbl) ==
    DistinctOrdered(TeamNames, {tbl[i].team1 : i \in 1..Len(tbl)})

\* COUNT(*) WHERE Team1 = t OR Team2 = t
MatchesPlayedQuery(tbl, t) ==
    Cardinality({i \in 1..Len(tbl) :
        Kept(SqlOr(SqlEq(tbl[i].team1, t), SqlEq(tbl[i].team2, t)))})

\* COUNT(*) WHERE Winner = t
MatchesWonQuery(tbl, t) ==
    Cardinality({i \in 1..Len(tbl) : Kept(SqlEq(tbl[i].winner, t))})

NoResultQueryAnyTeam(tbl, t) ==
    Cardinality({i \in 1..Len(tbl) :
        Kept(SqlOr(SqlIsNull(tbl[i].winner), SqlEq(tbl[i].winner, NoResult)))})

\* COUNT(*) WHERE (Team1 = t OR Team2 = t) AND (winner IS NULL OR winner = 'No Result')
NoResultQuery(tbl, t) ==
    Cardinality({i \in 1..Len(tbl) :
        Kept(SqlAnd(SqlOr(SqlEq(tbl[i].team1, t), SqlEq(tbl[i].team2, t)),
                    SqlOr(SqlIsNull(tbl[i].winner), SqlEq(tbl[i].winner, NoResult))))})

TotalLossesMissingNoResult(total_matches, total_wins, total_no_result) ==
    total_matches - total_wins

TotalLosses(total_matches, total_wins, total_no_result) ==
    total_matches - total_wins - total_no_result

-----------------------------------------------------------------------------
(* The queries of the head-to-head container.                              *)

\* (team1 = a AND team2 = b) OR (team1 = b AND team2 = a)
BetweenTeams(r, a, b) ==
    SqlOr(SqlAnd(SqlEq(r.team1, a), SqlEq(r.team2, b)),
          SqlAnd(SqlEq(r.team1, b), SqlEq(r.team2, a)))

H2HMatchesQuery(tbl, a, b) ==
    Cardinality({i \in 1..Len(tbl) : Kept(BetweenTeams(tbl[i], a, b))})

TeamAWinsQuery(tbl, a, b) ==
    Cardinality({i \in 1..Len(tbl) :
        Kept(SqlAnd(SqlEq(tbl[i].winner, a), BetweenTeams(tbl[i], a, b)))})

TeamBWinsOneOrder(tbl, a, b) ==
    Cardinality({i \in 1..Len(tbl) :
        Kept(SqlAnd(SqlEq(tbl[i].winner, b),
                    SqlAnd(SqlEq(tbl[i].team1, a), SqlEq(tbl[i].team2, b))))})

TeamBWinsQuery(tbl, a, b) ==
    Cardinality({i \in 1..Len(tbl) :
        Kept(SqlAnd(SqlEq(tbl[i].winner, b), BetweenTeams(tbl[i], a, b)))})

H2HNoResultOnlyA(h2h_total, team_a_wins, team_b_wins) ==
    h2h_total - team_a_wins

H2HNoResult(h2h_total, team_a_wins, team_b_wins) ==
    h2h_total - team_a_wins - team_b_wins

\* the selection guard of the head-to-head container; None is NULL, and a
\* team name is a non-empty string, so truthiness is being non-None
H2HGuardAllowsSame(team_a, team_b) ==
    team_a # NULL /\ team_b # NULL

H2HGuard(team_a, team_b) ==
    team_a # NULL /\ team_b # NULL /\ team_a # team_b

-----------------------------------------------------------------------------
(* The queries of tab4 (bowler analysis) and the overs string.             *)

ExcludedKinds == {"run out", "retired hurt", "obstructing the field"}

\* dismissal_kind IS NOT NULL AND dismissal_kind NOT IN ('run out', ...)
Credited(kind) ==
    SqlAnd(SqlNot(SqlIsNull(kind)), SqlNot(SqlIn(kind, ExcludedKinds)))

\* SELECT DISTINCT bowler FROM deliveries ORDER BY bowler
BowlerList(tbl) ==
    DistinctOrdered(BowlerNames, {tbl[i].bowler : i \in 1..Len(tbl)})

\* COUNT(CASE WHEN <credited> THEN 1 ELSE NULL END) ... WHERE bowler = b
TotalWicketsQuery(tbl, b) ==
    Cardinality({i \in 1..Len(tbl) :
        Kept(SqlEq(tbl[i].bowler, b)) /\ Kept(Credited(tbl[i].dismissal_kind))})

\* COUNT(*) ... WHERE bowler = b
TotalBallsQuery(tbl, b) ==
    Cardinality({i \in 1..Len(tbl) : Kept(SqlEq(tbl[i].bowler, b))})

\* str() of a non-negative integer, as the sequence of its characters
DigitChars == <<"0", "1", "2", "3", "4", "5", "6", "7", "8", "9">>

RECURSIVE IntToStr(_)
IntToStr(n) ==
    IF n < 10 THEN <<DigitChars[n + 1]>>
    ELSE IntToStr(n \div 10) \o <<DigitChars[(n % 10) + 1]>>

\* f"{total_balls // 6}.{total_balls % 6}"
OversStrSwapped(total_balls) ==
    IntToStr(total_balls % 6) \o <<".">> \o IntToStr(total_balls \div 6)

OversStr(total_balls) ==
    IntToStr(total_balls \div 6) \o <<".">> \o IntToStr(total_balls % 6)

\* ORDER BY wicket_count DESC over the groups, which GROUP BY leaves in key
\* order.  SQL leaves the order of equal counts open; SQLite's sorter gives
\* them in descending key order: each row goes before the rows whose count
\* is not larger
InsertByCountDesc(sorted, row) ==
    LET k == Cardinality({i \in 1..Len(sorted) :
                             sorted[i].wicket_count > row.wicket_count})
    IN  SubSeq(sorted, 1, k) \o <<row>> \o SubSeq(sorted, k + 1, Len(sorted))

RECURSIVE OrderByCountDesc(_)
OrderByCountDesc(rows) ==
    IF rows = <<>> THEN <<>>
    ELSE InsertByCountDesc(OrderByCountDesc(SubSeq(rows, 1, Len(rows) - 1)),
                           rows[Len(rows)])

\* the groups of GROUP BY dismissal_kind over the WHERE of wicket_types_query
WicketGroups(tbl, b) ==
    LET kept == {i \in 1..Len(tbl) :
                    Kept(SqlAnd(SqlEq(tbl[i].bowler, b), Credited(tbl[i].dismissal_kind)))}
        kinds == DistinctOrdered(DismissalKinds, {tbl[i].dismissal_kind : i \in kept})
    IN  [j \in 1..Len(kinds) |->
            [dismissal_kind |-> kinds[j],
             wicket_count |-> Cardinality({i \in kept : tbl[i].dismissal_kind = kinds[j]})]]

WicketTypesLimitOne(tbl, b) ==
    LET all == OrderByCountDesc(WicketGroups(tbl, b))
    IN  IF all = <<>> THEN <<>> ELSE <<all[1]>>

WicketTypesQuery(tbl, b) == OrderByCountDesc(WicketGroups(tbl, b))

-----------------------------------------------------------------------------
(* The queries of tab2 (batsman analysis).                                 *)

\* the batter / batsman fallback of tab2: which label the list came from,
\* and the labels whose DISTINCT query was run, in order
ResolveNoFallbackRename(c) ==
    IF "batter" \in c
    THEN [ok |-> TRUE, col |-> "batter", tried |-> <<"batter">>]
    ELSE [ok |-> "batsman" \in c, col |-> "batter", tried |-> <<"batter", "batsman">>]

ResolveBatsmanColumn(c) ==
    IF "batter" \in c
    THEN [ok |-> TRUE, col |-> "batter", tried |-> <<"batter">>]
    ELSE [ok |-> "batsman" \in c, col |-> "batsman", tried |-> <<"batter", "batsman">>]

\* SELECT DISTINCT <col> FROM deliveries ORDER BY <col>
BatsmenList(tbl) ==
    DistinctOrdered(BatterNames, {tbl[i].batter : i \in 1..Len(tbl)})

\* SUM(CASE WHEN batsman_runs = v THEN 1 ELSE 0 END) ... WHERE <col> = b:
\* NULL over no rows, else the number of kept rows with batsman_runs = v
BoundarySumAtLeast(tbl, b, v) ==
    LET kept == {i \in 1..Len(tbl) : Kept(SqlEq(tbl[i].batter, b))}
    IN  [null |-> kept = {},
         val |-> Cardinality({i \in kept : tbl[i].batsman_runs >= v})]

BoundarySum(tbl, b, v) ==
    LET kept == {i \in 1..Len(tbl) : Kept(SqlEq(tbl[i].batter, b))}
    IN  [null |-> kept = {},
         val |-> Cardinality({i \in kept : tbl[i].batsman_runs = v})]

\* int(x) if x else 0
MetricInt(x) == IF x.null \/ x.val = 0 THEN 0 ELSE x.val

-----------------------------------------------------------------------------
(* The season container's lookup table (Season and Winner columns).        *)

SeasonData == <<
    [Season |-> 2008, Winner |-> "RR"],  [Season |-> 2009, Winner |-> "DEC"],
    [Season |-> 2010, Winner |-> "CSK"], [Season |-> 2011, Winner |-> "CSK"],
    [Season |-> 2012, Winner |-> "KKR"], [Season |-> 2013, Winner |-> "MI"],
    [Season |-> 2014, Winner |-> "KKR"], [Season |-> 2015, Winner |-> "MI"],
    [Season |-> 2016, Winner |-> "SRH"], [Season |-> 2017, Winner |-> "MI"],
    [Season |-> 2018, Winner |-> "CSK"], [Season |-> 2019, Winner |-> "MI"],
    [Season |-> 2020, Winner |-> "MI"],  [Season |-> 2021, Winner |-> "CSK"],
    [Season |-> 2022, Winner |-> "GT"],  [Season |-> 2023, Winner |-> "CSK"],
    [Season |-> 2024, Winner |-> "KKR"] >>

\* season_winners_df[season_winners_df['Season'] == selected_season].iloc[0]
SeasonInfo(selected_season) ==
    SeasonData[CHOOSE i \in 1..Len(SeasonData) : SeasonData[i].Season = selected_season]

\* season_winners_df['Season'].unique(): the options of the season selectbox
SeasonChoices == {SeasonData[i].Season : i \in 1..Len(SeasonData)}

-----------------------------------------------------------------------------
(* The input: the CSV files.  Aggregates do not depend on the order of     *)
(* the rows, so tables are drawn with their rows in key order.             *)

WinnerValues == TeamNames \o <<NULL, NoResult>>
KindValues == <<NULL>> \o DismissalKinds
RunSeq == <<0, 1, 4, 6>>

MatchRows ==
    {r \in [team1 : Range(TeamNames), team2 : Range(TeamNames),
            winner : Range(WinnerValues)] : r.team1 # r.team2}

MatchKey(r) ==
    (Idx(TeamNames, r.team1) * 10 + Idx(TeamNames, r.team2)) * 10
        + Idx(WinnerValues, r.winner)

DeliveryKey(r) ==
    ((Idx(BowlerNames, r.bowler) * 10 + Idx(BatterNames, r.batter)) * 10
        + Idx(RunSeq, r.batsman_runs)) * 10 + Idx(KindValues, r.dismissal_kind)

Delivery(bw, bt, runs, kind) ==
    [bowler |-> bw, batter |-> bt, batsman_runs |-> runs, dismissal_kind |-> kind]

\* rows that differ in batter and runs only
BatterRows == {Delivery("X", bt, runs, NULL) : bt \in Range(BatterNames), runs \in RunValues}

\* rows that differ in bowler and dismissal kind only
BowlerRows == {Delivery(bw, "P", 0, kind) : bw \in Range(BowlerNames), kind \in Range(KindValues)}

UpTo(rows, n) == UNION {[1..k -> rows] : k \in 0..n}

MatchTables(n) ==
    {t \in UpTo(MatchRows, n) :
        \A i \in 1..(Len(t) - 1) : MatchKey(t[i]) <= MatchKey(t[i + 1])}

DeliveryTables(rows, n) ==
    {t \in UpTo(rows, n) :
        \A i \in 1..(Len(t) - 1) : DeliveryKey(t[i]) <= DeliveryKey(t[i + 1])}

FixedMatches == << [team1 |-> "A", team2 |-> "B", winner |-> "A"],
                   [team1 |-> "B", team2 |-> "A", winner |-> NULL] >>

FixedDeliveries == << Delivery("X", "P", 4, "caught") >>

UsualCols == {"batter", "bowler"}

Input(st, m, d, c) == [status |-> st, matches |-> m, deliveries |-> d, cols |-> c]

Inputs ==
         {Input("ok", m, FixedDeliveries, UsualCols) :
              m \in MatchTables(MaxMatches)}
    \cup {Input("ok", FixedMatches, d, UsualCols) :
              d \in DeliveryTables(BatterRows, MaxDeliveries)}
    \cup {Input("ok", FixedMatches, d, UsualCols) :
              d \in DeliveryTables(BowlerRows, MaxDeliveries)}
    \cup {Input("ok", FixedMatches, [i \in 1..n |-> Delivery("X", "P", 0, NULL)], UsualCols) :
              n \in 0..MaxBalls}
    \cup {Input(st, FixedMatches, FixedDeliveries, c) :
              st \in {"ok", "missing", "malformed", "sqlfail"},
              c \in SUBSET {"batter", "batsman", "bowler"}}

-----------------------------------------------------------------------------
(* What a run shows before a view has displayed anything.                  *)

NoBatsman == [shown |-> FALSE, sel |-> NULL, col |-> NULL, fours |-> 0, sixes |-> 0,
              pie |-> FALSE]

NoTeam == [shown |-> FALSE, sel |-> NULL, total_matches |-> 0, wins |-> 0,
           losses |-> 0, no_result |-> 0]

NoBowler == [shown |-> FALSE, sel |-> NULL, total_wickets |-> 0, total_balls |-> 0,
             overs |-> <<>>, wicket_types |-> <<>>]

NoSeason == [shown |-> FALSE, sel |-> 0, winner |-> NULL]

NoH2H == [state |-> "none", team_a |-> NULL, team_b |-> NULL, total |-> 0,
          team_a_wins |-> 0, team_b_wins |-> 0, no_result |-> 0]

Query(name, arg) == [q |-> name, arg |-> arg]

Init ==
    \E in \in Inputs :
        /\ fileStatus = in.status
        /\ matches = in.matches
        /\ deliveries = in.deliveries
        /\ cols = in.cols
        /\ conn = "none"
        /\ pc = "start"
        /\ queries = <<>>
        /\ rendered = {}
        /\ messages = <<>>
        /\ batsman = NoBatsman
        /\ team = NoTeam
        /\ bowler = NoBowler
        /\ season = NoSeason
        /\ h2h = NoH2H

-----------------------------------------------------------------------------
(* Helpers of the actions.                                                 *)

\* st.selectbox: one of the options, or None when there are none
Choices(options) == IF options = <<>> THEN {NULL} ELSE Range(options)

\* st.error(...) then st.stop() in setup_database and at its call: the run
\* ends; next is the section the script would have gone on to
AfterLoadErrorContinue(next) == next

AfterLoadError(next) == "stopped"

\* st.error(...) then st.stop() after a failed column query in tab2 / tab4
AfterSchemaErrorContinue(next) == next

AfterSchemaError(next) == "stopped"

LoadErrorMessage(status) ==
    CASE status = "missing" -> "Error: file not found"
      [] status = "malformed" -> "Error loading data"
      [] OTHER -> "Failed to initialize database"

RunEnded == pc \in {"done", "stopped", "crashed"}

-----------------------------------------------------------------------------
(* The actions: the sections of the script, in the order it runs them.     *)

\* lines 15-64: setup_database under st.cache_resource, and its call
SetupDatabase ==
    /\ pc = "start"
    /\ IF conn = "open" \/ fileStatus = "ok"
       THEN /\ conn' = "open"
            /\ pc' = "tab1"
            /\ messages' = messages
       ELSE /\ conn' = conn
            /\ pc' = AfterLoadError("tab1")
            /\ messages' = Append(messages, LoadErrorMessage(fileStatus))
    /\ UNCHANGED <<fileStatus, matches, deliveries, cols, queries, rendered,
                   batsman, team, bowler, season, h2h>>

\* lines 66-112: the header and tab1, three queries
OverallStats ==
    /\ pc = "tab1"
    /\ queries' = queries \o <<Query("ipl_matches_played", <<>>),
                               Query("season_query", <<>>),
                               Query("pom_query", <<>>)>>
    /\ rendered' = rendered \cup {"header", "overall"}
    /\ pc' = "tab2"
    /\ UNCHANGED <<fileStatus, matches, deliveries, cols, conn, messages,
                   batsman, team, bowler, season, h2h>>

\* lines 114-165: tab2, the batter column fallback and the boundary query
BatsmanAnalysis ==
    /\ pc = "tab2"
    /\ rendered' = rendered \cup {"batsman"}
    /\ LET res == ResolveBatsmanColumn(cols)
           listed == queries \o [i \in 1..Len(res.tried) |->
                                    Query("batsmen_query", <<res.tried[i]>>)]
       IN  IF ~res.ok
           THEN /\ queries' = listed
                /\ messages' = Append(messages, "Could not find 'batter' or 'batsman' column")
                /\ batsman' = batsman
                /\ pc' = AfterSchemaError("tab3")
           ELSE \E selected_batsman \in Choices(BatsmenList(deliveries)) :
                  /\ messages' = messages
                  /\ IF selected_batsman = NULL
                     THEN /\ queries' = listed
                          /\ batsman' = [NoBatsman EXCEPT !.col = res.col]
                          /\ pc' = "tab3"
                     ELSE /\ queries' = Append(listed, Query("boundary_query", <<res.col>>))
                          /\ IF res.col \notin cols
                             THEN \* no such column: DatabaseError, not caught
                                  /\ batsman' = [NoBatsman EXCEPT !.col = res.col,
                                                                  !.sel = selected_batsman]
                                  /\ pc' = "crashed"
                             ELSE LET fours == BoundarySum(deliveries, selected_batsman, 4)
                                      sixes == BoundarySum(deliveries, selected_batsman, 6)
                                  IN  /\ batsman' =
                                           [shown |-> TRUE, sel |-> selected_batsman,
                                            col |-> res.col,
                                            fours |-> MetricInt(fours),
                                            sixes |-> MetricInt(sixes),
                                            pie |-> \/ (~fours.null /\ fours.val > 0)
                                                    \/ (~sixes.null /\ sixes.val > 0)]
                                      /\ pc' = "tab3"
    /\ UNCHANGED <<fileStatus, matches, deliveries, cols, conn, team, bowler, season, h2h>>

\* lines 172-266: tab3, the team's split and its winning venues
TeamPerformance ==
    /\ pc = "tab3"
    /\ rendered' = rendered \cup {"team"}
    /\ \E selected_team \in Choices(TeamsList(matches)) :
          IF selected_team = NULL
          THEN /\ queries' = Append(queries, Query("teams_query", <<>>))
               /\ team' = team
          ELSE LET total_matches == MatchesPlayedQuery(matches, selected_team)
                   total_wins == MatchesWonQuery(matches, selected_team)
                   total_no_result == NoResultQuery(matches, selected_team)
               IN  /\ queries' = queries \o
                          <<Query("teams_query", <<>>),
                            Query("matches_played_query", <<selected_team>>),
                            Query("matches_won_query", <<selected_team>>),
                            Query("no_result_query", <<selected_team>>),
                            Query("team_venue_query", <<selected_team>>)>>
                   /\ team' = [shown |-> TRUE, sel |-> selected_team,
                               total_matches |-> total_matches,
                               wins |-> total_wins,
                               losses |-> TotalLosses(total_matches, total_wins,
                                                      total_no_result),
                               no_result |-> total_no_result]
    /\ pc' = "tab4"
    /\ UNCHANGED <<fileStatus, matches, deliveries, cols, conn, messages,
                   batsman, bowler, season, h2h>>

\* lines 268-331: tab4, the bowler's wickets, overs and wicket types
BowlerAnalysis ==
    /\ pc = "tab4"
    /\ rendered' = rendered \cup {"bowler"}
    /\ IF "bowler" \notin cols
       THEN /\ queries' = Append(queries, Query("bowler_query", <<>>))
            /\ messages' = Append(messages, "Could not find 'bowler' column")
            /\ bowler' = bowler
            /\ pc' = AfterSchemaError("season")
       ELSE \E selected_bowler \in Choices(BowlerList(deliveries)) :
              /\ messages' = messages
              /\ pc' = "season"
              /\ IF selected_bowler = NULL
                 THEN /\ queries' = Append(queries, Query("bowler_query", <<>>))
                      /\ bowler' = bowler
                 ELSE LET total_balls == TotalBallsQuery(deliveries, selected_bowler)
                      IN  /\ queries' = queries \o
                                 <<Query("bowler_query", <<>>),
                                   Query("bowler_stats_query", <<selected_bowler>>),
                                   Query("wicket_types_query", <<selected_bowler>>)>>
                          /\ bowler' =
                                 [shown |-> TRUE, sel |-> selected_bowler,
                                  total_wickets |-> TotalWicketsQuery(deliveries, selected_bowler),
                                  total_balls |-> total_balls,
                                  overs |-> OversStr(total_balls),
                                  wicket_types |-> WicketTypesQuery(deliveries, selected_bowler)]
    /\ UNCHANGED <<fileStatus, matches, deliveries, cols, conn, batsman, team, season, h2h>>

\* lines 336-397: the season container, a lookup in season_data
SeasonWinners ==
    /\ pc = "season"
    /\ rendered' = rendered \cup {"season"}
    /\ \E selected_season \in SeasonChoices :
          season' = [shown |-> TRUE, sel |-> selected_season,
                     winner |-> SeasonInfo(selected_season).Winner]
    /\ pc' = "h2h"
    /\ UNCHANGED <<fileStatus, matches, deliveries, cols, conn, queries, messages,
                   batsman, team, bowler, h2h>>

\* lines 400-461: the head-to-head container
HeadToHead ==
    /\ pc = "h2h"
    /\ rendered' = rendered \cup {"h2h"}
    /\ LET teams_list == TeamsList(matches)
       IN  IF Len(teams_list) = 1
           THEN \* selectbox(..., index=1) over one option raises
                /\ h2h' = [NoH2H EXCEPT !.state = "error"]
                /\ queries' = queries
                /\ messages' = messages
                /\ pc' = "crashed"
           ELSE \E team_a \in Choices(teams_list), team_b \in Choices(teams_list) :
                  /\ pc' = "done"
                  /\ IF H2HGuard(team_a, team_b)
                     THEN LET h2h_total == H2HMatchesQuery(matches, team_a, team_b)
                              team_a_wins == TeamAWinsQuery(matches, team_a, team_b)
                              team_b_wins == TeamBWinsQuery(matches, team_a, team_b)
                          IN  /\ queries' = queries \o
                                     <<Query("h2h_matches_query", <<team_a, team_b>>),
                                       Query("team_a_wins_query", <<team_a, team_b>>),
                                       Query("team_b_wins_query", <<team_a, team_b>>)>>
                              /\ messages' = messages
                              /\ h2h' = [state |-> IF h2h_total > 0 THEN "results"
                                                   ELSE "no_matches",
                                         team_a |-> team_a, team_b |-> team_b,
                                         total |-> h2h_total,
                                         team_a_wins |-> team_a_wins,
                                         team_b_wins |-> team_b_wins,
                                         no_result |-> H2HNoResult(h2h_total, team_a_wins,
                                                                   team_b_wins)]
                     ELSE /\ queries' = queries
                          /\ IF team_a = team_b
                             THEN /\ messages' = Append(messages,
                                         "Please select two different teams")
                                  /\ h2h' = [NoH2H EXCEPT !.state = "warning",
                                                          !.team_a = team_a,
                                                          !.team_b = team_b]
                             ELSE /\ messages' = messages
                                  /\ h2h' = [NoH2H EXCEPT !.team_a = team_a,
                                                          !.team_b = team_b]
    /\ UNCHANGED <<fileStatus, matches, deliveries, cols, conn, batsman, team, bowler, season>>

\* a user interaction after the run has ended: Streamlit runs the script again
Rerun ==
    /\ RunEnded
    /\ pc' = "start"
    /\ queries' = <<>>
    /\ rendered' = {}
    /\ messages' = <<>>
    /\ batsman' = NoBatsman
    /\ team' = NoTeam
    /\ bowler' = NoBowler
    /\ season' = NoSeason
    /\ h2h' = NoH2H
    /\ UNCHANGED <<fileStatus, matches, deliveries, cols, conn>>

Next ==
    \/ SetupDatabase
    \/ OverallStats
    \/ BatsmanAnalysis
    \/ TeamPerformance
    \/ BowlerAnalysis
    \/ SeasonWinners
    \/ HeadToHead
    \/ Rerun

Spec == Init /\ [][Next]_vars

-----------------------------------------------------------------------------
(* Counting helpers of the properties, written on the rows directly.       *)

MatchesOf(T) ==
    {i \in 1..Len(matches) : matches[i].team1 = T \/ matches[i].team2 = T}

MatchesBetween(A, B) ==
    {i \in 1..Len(matches) :
        \/ (matches[i].team1 = A /\ matches[i].team2 = B)
        \/ (matches[i].team1 = B /\ matches[i].team2 = A)}

WithoutWinner(S) == {i \in S : matches[i].winner \in {NULL, "No Result"}}

BallsOf(b) == {i \in 1..Len(deliveries) : deliveries[i].bowler = b}

WicketsOf(b) ==
    {i \in BallsOf(b) :
        /\ deliveries[i].dismissal_kind # NULL
        /\ deliveries[i].dismissal_kind \notin
               {"run out", "retired hurt", "obstructing the field"}}

RECURSIVE SumOfCounts(_)
SumOfCounts(rows) ==
    IF rows = <<>> THEN 0 ELSE rows[1].wicket_count + SumOfCounts(Tail(rows))

H2HQueried == h2h.state \in {"results", "no_matches"}

-----------------------------------------------------------------------------
(* C1 *)

\* C1: for the team T shown in the team-performance view, total_matches is the
\* number of matches with T as team1 or team2, wins the number of matches whose
\* winner is T, no_result the number of T's matches whose winner is null or
\* 'No Result', and wins + losses + no_result = total_matches.
C1_TeamSplitAddsUp ==
    team.shown =>
        /\ team.sel \in Range(TeamsList(matches))
        /\ team.total_matches = Cardinality(MatchesOf(team.sel))
        /\ team.wins = Cardinality({i \in 1..Len(matches) : matches[i].winner = team.sel})
        /\ team.no_result = Cardinality(WithoutWinner(MatchesOf(team.sel)))
        /\ team.wins + team.losses + team.no_result = team.total_matches

\* a team with one win and one match without a result
C1_Witness ==
    /\ team.shown
    /\ team.total_matches = 2
    /\ team.wins = 1
    /\ team.no_result = 1
    /\ team.losses = 0

-----------------------------------------------------------------------------
(* C2 *)

\* C2: the head-to-head figures shown for the selection (A, B) agree with what
\* the queries give for the swapped selection (B, A): the totals are equal, and
\* the 'team A wins' figure of (A, B) is the 'team B wins' figure of (B, A).
C2_H2HSymmetric ==
    H2HQueried =>
        /\ h2h.total = H2HMatchesQuery(matches, h2h.team_b, h2h.team_a)
        /\ h2h.team_a_wins = TeamBWinsQuery(matches, h2h.team_b, h2h.team_a)

\* two meetings, one in each team1/team2 order, the selected team A winning both
C2_Witness ==
    /\ h2h.state = "results"
    /\ h2h.total = 2
    /\ h2h.team_a_wins = 2
    /\ \E i \in 1..Len(matches) : matches[i].team1 = h2h.team_b

-----------------------------------------------------------------------------
(* C3 *)

\* C3 (as claimed): the head-to-head 'No Result' figure is the number of
\* matches between A and B whose winner is null or 'No Result'.
C3_NoResultIsNullOrSentinel ==
    H2HQueried =>
        h2h.no_result =
            Cardinality(WithoutWinner(MatchesBetween(h2h.team_a, h2h.team_b)))

\* C3 (amended): the head-to-head 'No Result' figure is total - A wins - B wins,
\* the number of matches between A and B whose winner is neither A nor B (a
\* null winner included); it is the number of null or 'No Result' winners
\* whenever every match between A and B has winner A, B, null or 'No Result';
\* two A-B matches, one won by A and one with a null winner, give 2, 1, 0, 1.
C3_NoResultIsResidual ==
    H2HQueried =>
        LET between == MatchesBetween(h2h.team_a, h2h.team_b)
            decided == {i \in between : matches[i].winner \in {h2h.team_a, h2h.team_b}}
        IN  /\ h2h.total = Cardinality(between)
            /\ h2h.team_a_wins =
                   Cardinality({i \in between : matches[i].winner = h2h.team_a})
            /\ h2h.team_b_wins =
                   Cardinality({i \in between : matches[i].winner = h2h.team_b})
            /\ h2h.no_result = Cardinality(between \ decided)
            /\ (between \ decided = WithoutWinner(between)) =>
                   h2h.no_result = Cardinality(WithoutWinner(between))

\* the scenario of the claim: A beat B once, and one A-B match has a null winner
C3_Witness ==
    /\ h2h.state = "results"
    /\ h2h.total = 2
    /\ h2h.team_a_wins = 1
    /\ h2h.team_b_wins = 0
    /\ h2h.no_result = 1
    /\ \E i \in MatchesBetween(h2h.team_a, h2h.team_b) : matches[i].winner = NULL

-----------------------------------------------------------------------------
(* C4 *)

\* C4: for the bowler shown, total_wickets is the number of the bowler's
\* deliveries whose dismissal_kind is non-null and none of 'run out',
\* 'retired hurt', 'obstructing the field'; the breakdown has one row per such
\* kind with its count (no row limit), so its counts sum to total_wickets; and
\* its rows are in non-increasing wicket_count order.
C4_WicketBreakdown ==
    bowler.shown =>
        LET rows == bowler.wicket_types
            wk == WicketsOf(bowler.sel)
        IN  /\ bowler.total_wickets = Cardinality(wk)
            /\ SumOfCounts(rows) = bowler.total_wickets
            /\ \A i \in wk : \E j \in 1..Len(rows) :
                   /\ rows[j].dismissal_kind = deliveries[i].dismissal_kind
                   /\ rows[j].wicket_count =
                          Cardinality({k \in wk : deliveries[k].dismissal_kind
                                                     = deliveries[i].dismissal_kind})
            /\ \A j \in 1..(Len(rows) - 1) :
                   rows[j].wicket_count >= rows[j + 1].wicket_count

\* three deliveries of one bowler: two 'caught' and one 'run out'
C4_Witness ==
    /\ bowler.shown
    /\ bowler.total_balls = 3
    /\ bowler.total_wickets = 2
    /\ bowler.wicket_types = <<[dismissal_kind |-> "caught", wicket_count |-> 2]>>
    /\ \E i \in BallsOf(bowler.sel) : deliveries[i].dismissal_kind = "run out"

-----------------------------------------------------------------------------
(* C5 *)

\* reading an overs string back: the position of its point, and the numbers
\* written before and after it
DigitValue(c) == Idx(DigitChars, c) - 1

RECURSIVE StrToInt(_)
StrToInt(s) ==
    IF Len(s) = 1 THEN DigitValue(s[1])
    ELSE StrToInt(SubSeq(s, 1, Len(s) - 1)) * 10 + DigitValue(s[Len(s)])

IsNumeral(s) ==
    /\ s # <<>>
    /\ \A i \in 1..Len(s) : s[i] \in Range(DigitChars)
    /\ (Len(s) > 1 => s[1] # "0")

OversReadsAs(s, n) ==
    /\ Cardinality({i \in 1..Len(s) : s[i] = "."}) = 1
    /\ LET dot == CHOOSE i \in 1..Len(s) : s[i] = "."
           whole == SubSeq(s, 1, dot - 1)
           rest == SubSeq(s, dot + 1, Len(s))
       IN  /\ IsNumeral(whole)
           /\ IsNumeral(rest)
           /\ StrToInt(whole) = n \div 6
           /\ StrToInt(rest) = n % 6
           /\ StrToInt(rest) \in 0..5
           /\ 6 * StrToInt(whole) + StrToInt(rest) = n

\* C5: the overs string of the bowler shown, who bowled n deliveries, is
\* '<q>.<r>' with q = n div 6 and r = n mod 6 in decimal, 0 <= r <= 5 and
\* 6*q + r = n; 37 balls give '6.1', and the string for zero balls is '0.0'.
C5_OversString ==
    /\ bowler.shown =>
           /\ bowler.total_balls = Cardinality(BallsOf(bowler.sel))
           /\ OversReadsAs(bowler.overs, Cardinality(BallsOf(bowler.sel)))
           /\ (bowler.total_balls = 37 => bowler.overs = <<"6", ".", "1">>)
    /\ OversStr(0) = <<"0", ".", "0">>

\* a bowler with 37 deliveries, shown as 6.1
C5_Witness ==
    /\ bowler.shown
    /\ bowler.total_balls = 37
    /\ bowler.overs = <<"6", ".", "1">>

-----------------------------------------------------------------------------
(* C6 *)

BallsFaced(b, v) ==
    {i \in 1..Len(deliveries) :
        deliveries[i].batter = b /\ deliveries[i].batsman_runs = v}

\* C6: for the batter shown, Fours is the number of the batter's deliveries
\* with batsman_runs = 4 and Sixes the number with batsman_runs = 6; no run
\* ends in an error in the batsman tab; and for any batter name, one that
\* matches no row included (the SUM is then null), the figure is that count,
\* so 0 and 0 for a batter without boundaries.
C6_BoundaryCounts ==
    /\ batsman.shown =>
           /\ batsman.fours = Cardinality(BallsFaced(batsman.sel, 4))
           /\ batsman.sixes = Cardinality(BallsFaced(batsman.sel, 6))
    /\ (pc = "crashed" => "batsman" \in rendered /\ h2h.state = "error")
    /\ \A b \in Range(BatterNames) :
           /\ MetricInt(BoundarySum(deliveries, b, 4)) = Cardinality(BallsFaced(b, 4))
           /\ MetricInt(BoundarySum(deliveries, b, 6)) = Cardinality(BallsFaced(b, 6))

\* a batter who faced deliveries and hit no boundary, beside one who hit a six
C6_Witness ==
    /\ batsman.shown
    /\ batsman.fours = 0
    /\ batsman.sixes = 0
    /\ ~batsman.pie
    /\ \E i \in 1..Len(deliveries) : deliveries[i].batsman_runs = 6

-----------------------------------------------------------------------------
(* C7 *)

H2HQueryNames == {"h2h_matches_query", "team_a_wins_query", "team_b_wins_query"}

H2HQueriesRun == {i \in 1..Len(queries) : queries[i].q \in H2HQueryNames}

\* C7: once the head-to-head container has taken its two selections, equal
\* selections give the warning state with no head-to-head query run; and the
\* head-to-head queries are run only for two non-empty, different selections.
C7_SameTeamGuard ==
    /\ (pc = "done" /\ h2h.team_a = h2h.team_b) =>
           /\ h2h.state = "warning"
           /\ H2HQueriesRun = {}
           /\ messages # <<>>
    /\ H2HQueriesRun # {} =>
           /\ h2h.team_a # NULL
           /\ h2h.team_b # NULL
           /\ h2h.team_a # h2h.team_b
           /\ \A i \in H2HQueriesRun : queries[i].arg = <<h2h.team_a, h2h.team_b>>

\* the user picked the same team twice
C7_Witness ==
    /\ pc = "done"
    /\ h2h.state = "warning"
    /\ h2h.team_a # NULL
    /\ h2h.team_a = h2h.team_b

-----------------------------------------------------------------------------
(* C8 *)

HasMessage(m) == \E i \in 1..Len(messages) : messages[i] = m

BatterResolutionFailed == HasMessage("Could not find 'batter' or 'batsman' column")

BowlerListFailed == HasMessage("Could not find 'bowler' column")

\* C8 (as claimed): when the batter-column resolution or the bowler-list query
\* has failed, the run still renders the remaining views.
C8_OtherViewsStillRender ==
    /\ (RunEnded /\ BatterResolutionFailed) =>
           {"team", "bowler", "season", "h2h"} \subseteq rendered
    /\ (RunEnded /\ BowlerListFailed) =>
           {"season", "h2h"} \subseteq rendered

\* C8 (amended): a failed batter-column resolution or bowler-list query stops
\* the run at that point: the views before it stay rendered (the header and
\* tab1; for the bowler list also the batsman and team tabs) and no later view
\* is rendered and no later query is run in that run.
C8_SchemaFailureStopsRun ==
    /\ BatterResolutionFailed =>
           /\ pc = "stopped"
           /\ rendered = {"header", "overall", "batsman"}
           /\ queries[Len(queries)].q = "batsmen_query"
           /\ team = NoTeam /\ bowler = NoBowler /\ season = NoSeason /\ h2h = NoH2H
    /\ BowlerListFailed =>
           /\ pc = "stopped"
           /\ rendered = {"header", "overall", "batsman", "team", "bowler"}
           /\ queries[Len(queries)].q = "bowler_query"
           /\ bowler = NoBowler /\ season = NoSeason /\ h2h = NoH2H

\* the bowler list failed after the team tab had shown a team
C8_Witness ==
    /\ BowlerListFailed
    /\ pc = "stopped"
    /\ team.shown
    /\ "season" \notin rendered

-----------------------------------------------------------------------------
(* C9 *)

\* C9: when loading fails (a file missing, a file that does not parse, or the
\* database not filled), the run reports one error and stops: no run_query
\* call is made and no view is rendered in any run.
C9_LoadFailureHalts ==
    fileStatus # "ok" =>
        /\ pc \in {"start", "stopped"}
        /\ conn = "none"
        /\ queries = <<>>
        /\ rendered = {}
        /\ (pc = "stopped" => messages = <<LoadErrorMessage(fileStatus)>>)
        /\ batsman = NoBatsman /\ team = NoTeam /\ bowler = NoBowler
        /\ season = NoSeason /\ h2h = NoH2H

\* a run stopped by a missing file
C9_Witness ==
    /\ fileStatus = "missing"
    /\ pc = "stopped"
    /\ messages = <<"Error: file not found">>

-----------------------------------------------------------------------------
(* C10 *)

BatsmenQueries == SelectSeq(queries, LAMBDA x : x.q = "batsmen_query")

BoundaryQueries == SelectSeq(queries, LAMBDA x : x.q = "boundary_query")

\* C10: the DISTINCT query is run on 'batter' first; on 'batsman' only after
\* 'batter' was absent, and once; the resolution fails only when both are
\* absent; and the boundary query filters on the label whose DISTINCT query
\* succeeded, a column the table has.
C10_BatterColumnFallback ==
    /\ Len(BatsmenQueries) <= 2
    /\ (BatsmenQueries # <<>> => BatsmenQueries[1].arg = <<"batter">>)
    /\ (Len(BatsmenQueries) = 2 =>
           /\ BatsmenQueries[2].arg = <<"batsman">>
           /\ "batter" \notin cols)
    /\ (BatterResolutionFailed =>
           /\ Len(BatsmenQueries) = 2
           /\ "batter" \notin cols /\ "batsman" \notin cols)
    /\ (("batsman" \in rendered /\ ~BatterResolutionFailed) =>
           BatsmenQueries[Len(BatsmenQueries)].arg[1] \in cols)
    /\ \A i \in 1..Len(BoundaryQueries) :
           /\ BoundaryQueries[i].arg[1] \in cols
           /\ BoundaryQueries[i].arg = BatsmenQueries[Len(BatsmenQueries)].arg
           /\ batsman.col = BoundaryQueries[i].arg[1]

\* the table has 'batsman' only: the fallback resolved it and the boundary
\* query used it
C10_Witness ==
    /\ batsman.shown
    /\ batsman.col = "batsman"
    /\ "batter" \notin cols
    /\ Len(BatsmenQueries) = 2
    /\ BoundaryQueries = <<Query("boundary_query", <<"batsman">>)>>

-----------------------------------------------------------------------------
(* C11 *)

\* every match's winner is null, 'No Result', or one of its two participants
WinnersAreParticipants ==
    \A i \in 1..Len(matches) :
        matches[i].winner \in {NULL, "No Result", matches[i].team1, matches[i].team2}

\* the matches T played whose winner is the other participant
LostBy(T) ==
    {i \in MatchesOf(T) :
        /\ matches[i].winner # T
        /\ matches[i].winner \in {matches[i].team1, matches[i].team2}}

\* the matches that name T as winner although T did not play them
WonWithoutPlaying(T) ==
    {i \in 1..Len(matches) : matches[i].winner = T /\ i \notin MatchesOf(T)}

\* C11: for the team T shown, when every match's winner is null, 'No Result'
\* or one of the match's two participants, the derived losses are not negative
\* and are the number of T's matches won by the other participant; and losses
\* are negative only when some match names T as winner without T playing it.
C11_LossesSign ==
    team.shown =>
        /\ WinnersAreParticipants =>
               /\ team.losses >= 0
               /\ team.losses = Cardinality(LostBy(team.sel))
        /\ team.losses < 0 => WonWithoutPlaying(team.sel) # {}

\* consistent winners, and the team shown lost one match and won one
C11_Witness ==
    /\ team.shown
    /\ WinnersAreParticipants
    /\ team.losses = 1
    /\ team.wins = 1
    /\ LostBy(team.sel) # {}

\* the other side of the claim is reached too: losses below zero
C11_NegativeLossesReached ==
    /\ team.shown
    /\ team.losses < 0
    /\ WonWithoutPlaying(team.sel) # {}

====
